---- MODULE Spec2Model ----
(***************************************************************************)
(* Route-optimization pipeline of app.py: the geocode cache               *)
(* (obtener_datos_geo), the batched travel-time matrix                     *)
(* (obtener_matriz_dm_ai), the partitioner (simple_kmeans_plus), the       *)
(* routing calls (resolver_vrp, resolver_tsp_parcial) and the endpoints    *)
(* that compose them.                                                      *)
(***************************************************************************)
EXTENDS Integers, Sequences, FiniteSets, TLC

\* ------------------------------------------------------------------------
\* Bounds of the model
\* ------------------------------------------------------------------------
\* Largest point list handed to obtener_matriz_dm_ai in SpecMatrix.
MaxPoints == 21
\* Number of obtener_datos_geo calls in a behaviour of SpecGeo.
MaxCalls == 3
\* Longest stop list of a request.
MaxStops == 3
\* Largest num_vans of a request.
MaxVans == 2

\* ------------------------------------------------------------------------
\* Program constants
\* ------------------------------------------------------------------------
BATCH_SIZE == 10
SENTINEL == 999999

\* ------------------------------------------------------------------------
\* Generic helpers
\* ------------------------------------------------------------------------
Min(a, b) == IF a <= b THEN a ELSE b

Range(s) == {s[k] : k \in DOMAIN s}

\* ------------------------------------------------------------------------
\* obtener_matriz_dm_ai: the batched matrix call
\* ------------------------------------------------------------------------
\* Coordinate strings as sequences of characters; a blank may be present in
\* a caller-supplied "lat, lng".
PointPool ==
  << <<"1", ",", "1">>, <<"1", ",", " ", "2">>, <<"2", ",", "1">>,
     <<" ", "2", ",", "2">>, <<"1", ",", "2">> >>

\* p.replace(" ", "")
CleanPoint(p) == SelectSeq(p, LAMBDA ch : ch # " ")

\* clean_points = [p.replace(" ", "") for p in puntos]
CleanPoints(pts) == [k \in DOMAIN pts |-> CleanPoint(pts[k])]

\* The matrix backend as a reference service: the element it answers for
\* one origin and one destination (both in the cleaned form the URL
\* carries).  Three services are modelled; each answers some pairs with a
\* non-OK element status.
PointCode(cp) ==
  IF cp = <<"1", ",", "1">> THEN 1
  ELSE IF cp = <<"1", ",", "2">> THEN 2
  ELSE IF cp = <<"2", ",", "1">> THEN 3
  ELSE IF cp = <<"2", ",", "2">> THEN 4
  ELSE 0

Backends == 1..3

Element(back, o, d) ==
  LET a == PointCode(o)
      b == PointCode(d)
  IN  IF o = d THEN [status |-> "OK", value |-> 0]
      ELSE IF (a + 2 * b + back) % 5 = 0
        THEN [status |-> "ZERO_RESULTS", value |-> 0]
        ELSE [status |-> "OK", value |-> 60 * ((3 * a + b + back) % 7) + 30 * back]

\* clean_points[i : i + BATCH_SIZE]  (Python slice, i counted from 0)
Chunk(clean, i) == SubSeq(clean, i + 1, Min(i + BATCH_SIZE, Len(clean)))

\* The body of a successful response: one row per origin of the chunk, one
\* element per destination of the chunk.
ResponseRows(back, chunk_origins, chunk_dests) ==
  [r_idx \in 0..(Len(chunk_origins) - 1) |->
     [c_idx \in 0..(Len(chunk_dests) - 1) |->
        Element(back, chunk_origins[r_idx + 1], chunk_dests[c_idx + 1])]]

\* val = 999999; if element.get("status") == "OK": val = duration.value
ElementVal(element) ==
  IF element.status = "OK" THEN element.value ELSE SENTINEL

\* global_row = i + r_idx
GlobalRow(i, r_idx) == i + r_idx

\* The stitch with the column offset of the batch left out.
GlobalColBug(j, c_idx) == c_idx
\* global_col = j + c_idx
GlobalCol(j, c_idx) == j + c_idx

\* The (r_idx, c_idx) pairs of a response whose write lands on cell (r, c).
Landing(rows, i, j, r, c) ==
  {rc \in {<<r_idx, c_idx>> : r_idx \in DOMAIN rows, c_idx \in DOMAIN rows[0]} :
     GlobalRow(i, rc[1]) = r /\ GlobalCol(j, rc[2]) = c}

\* The last pair of the enumerate loops (row-major order) among a set.
LastPair(S) ==
  CHOOSE rc \in S : \A o \in S : o[1] < rc[1] \/ (o[1] = rc[1] /\ o[2] <= rc[2])

\* The two enumerate loops over a successful response, writing
\* full_matrix[global_row][global_col] = val.
StitchBatch(fm, rows, i, j) ==
  [r \in DOMAIN fm |->
     [c \in DOMAIN fm[r] |->
        LET hits == Landing(rows, i, j, r, c)
        IN  IF hits = {} THEN fm[r][c]
            ELSE ElementVal(rows[LastPair(hits)[1]][LastPair(hits)[2]])]]

\* Number of writes a successful response adds to every cell.
CountBatch(wr, rows, i, j) ==
  [r \in DOMAIN wr |->
     [c \in DOMAIN wr[r] |-> wr[r][c] + Cardinality(Landing(rows, i, j, r, c))]]

\* full_matrix = [[0] * n for _ in range(n)]
ZeroMatrix(n) == [r \in 0..(n - 1) |-> [c \in 0..(n - 1) |-> 0]]

\* What one batch request can end in: a 200 answer with body status OK, a
\* raised exception or timeout, a non-200 status code, a non-OK body status.
BatchOutcomes == {"ok", "exception", "http_error", "body_not_ok"}

VARIABLES
  puntos,        \* the argument of obtener_matriz_dm_ai
  has_key,       \* DISTANCEMATRIX_AI_KEY is configured
  backend,       \* which reference service answers
  mpc,           \* position in obtener_matriz_dm_ai
  bi, bj,        \* the loop variables i and j
  full_matrix,   \* the matrix under construction, then the returned value
  writes,        \* how often each cell has been assigned
  failed         \* the batches (i, j) whose request did not deliver rows
                 \* (each failure kind is only printed, lines 283-291)

mvars == <<puntos, has_key, backend, mpc, bi, bj, full_matrix, writes, failed>>

\* Point lists of every length up to MaxPoints, drawn from the pool by a
\* stride so that neighbours differ and values repeat.
PointList(n, stride) ==
  [k \in 1..n |-> PointPool[((k * stride) % Len(PointPool)) + 1]]

MatrixInit ==
  /\ \E n \in 0..MaxPoints, stride \in 1..2 : puntos = PointList(n, stride)
  /\ has_key \in BOOLEAN
  /\ backend \in Backends
  /\ mpc = "call"
  /\ bi = 0 /\ bj = 0
  /\ full_matrix = <<>>
  /\ writes = <<>>
  /\ failed = {}

\* Lines 244-248: the early return, the missing key, the zero matrix.
MatrixEnter ==
  /\ mpc = "call"
  /\ IF Len(puntos) < 2
       THEN /\ mpc' = "returned"
            /\ full_matrix' = ZeroMatrix(1)
            /\ writes' = ZeroMatrix(1)
     ELSE IF ~has_key
       THEN /\ mpc' = "raised"
            /\ UNCHANGED <<full_matrix, writes>>
     ELSE /\ mpc' = "loop"
          /\ full_matrix' = ZeroMatrix(Len(puntos))
          /\ writes' = ZeroMatrix(Len(puntos))
  /\ UNCHANGED <<puntos, has_key, backend, bi, bj, failed>>

\* for j in range(0, n, BATCH_SIZE) inside for i in range(0, n, BATCH_SIZE)
AdvanceLoop ==
  LET n == Len(puntos)
  IN  IF bj + BATCH_SIZE < n
        THEN /\ bj' = bj + BATCH_SIZE
             /\ bi' = bi
             /\ mpc' = "loop"
      ELSE IF bi + BATCH_SIZE < n
        THEN /\ bj' = 0
             /\ bi' = bi + BATCH_SIZE
             /\ mpc' = "loop"
      ELSE /\ UNCHANGED <<bi, bj>>
           /\ mpc' = "end_loop"

\* Lines 267-280: a batch whose request answers 200 / OK.
MatrixBatchOk ==
  /\ mpc = "loop"
  /\ LET clean == CleanPoints(puntos)
         rows == ResponseRows(backend, Chunk(clean, bi), Chunk(clean, bj))
     IN  /\ full_matrix' = StitchBatch(full_matrix, rows, bi, bj)
         /\ writes' = CountBatch(writes, rows, bi, bj)
  /\ AdvanceLoop
  /\ UNCHANGED <<puntos, has_key, backend, failed>>

\* Lines 281-291: a batch whose request fails; the failure is printed and
\* the loops go on.
MatrixBatchFail ==
  /\ mpc = "loop"
  /\ \E outcome \in BatchOutcomes \ {"ok"} : failed' = failed \cup {<<bi, bj>>}
  /\ AdvanceLoop
  /\ UNCHANGED <<puntos, has_key, backend, full_matrix, writes>>

\* Line 294: return full_matrix
MatrixReturn ==
  /\ mpc = "end_loop"
  /\ mpc' = "returned"
  /\ UNCHANGED <<puntos, has_key, backend, bi, bj, full_matrix, writes, failed>>

MatrixNext == MatrixEnter \/ MatrixBatchOk \/ MatrixBatchFail \/ MatrixReturn

\* ------------------------------------------------------------------------
\* obtener_datos_geo: the geocode cache
\* ------------------------------------------------------------------------
\* Texts are sequences of characters.  None and the empty string are both
\* the empty sequence: the code only ever tests them for truth.
None == <<>>

\* (None, None, None)
NoneTriple == <<None, None, None>>

Letters == {"a", "b", "d", "x", "y", "z", "w", "v", "p", "A", "B", "D", "M", "V"}
Digits == {"0", "1", "2", "3", "4", "5", "6", "7", "8", "9"}

\* str.lower() on one character
LowerChar(ch) ==
  CASE ch = "A" -> "a"
    [] ch = "B" -> "b"
    [] ch = "D" -> "d"
    [] ch = "M" -> "m"
    [] ch = "V" -> "v"
    [] OTHER -> ch

Lower(t) == [k \in DOMAIN t |-> LowerChar(t[k])]

\* str.strip(): leading and trailing blanks removed
RECURSIVE LStrip(_)
LStrip(t) == IF t # <<>> /\ Head(t) = " " THEN LStrip(Tail(t)) ELSE t

RECURSIVE RStrip(_)
RStrip(t) ==
  IF t # <<>> /\ t[Len(t)] = " " THEN RStrip(SubSeq(t, 1, Len(t) - 1)) ELSE t

Strip(t) == RStrip(LStrip(t))

\* direccion_clean = direccion.strip().lower()
Normalize(direccion) == Lower(Strip(direccion))

\* \w of the regular expression
IsWordChar(ch) == ch \in Letters \cup Digits \cup {"m", "_"}

\* re.search(r'\b\d{5}\b', formatted_addr)
HasFiveDigitWord(t) ==
  \E k \in 1..(Len(t) - 4) :
     /\ \A q \in k..(k + 4) : t[q] \in Digits
     /\ (k = 1 \/ ~IsWordChar(t[k - 1]))
     /\ (k + 4 = Len(t) \/ ~IsWordChar(t[k + 5]))

\* The first result of gmaps.geocode for the places of the model: one with
\* a US zip code, one with a postal code that is no 5-digit number, one
\* without postal code whose street number has 5 digits, a second one with
\* a US zip code, and one without postal code or number.
ZipComponent == [types |-> {"postal_code"}]
CityComponent == [types |-> {"locality", "political"}]

ResUS1 ==
  [address_components |-> <<CityComponent, ZipComponent>>,
   formatted_address |-> <<"x", " ", "3", "2", "8", "0", "1">>,
   geometry |-> [lat |-> 1, lng |-> 1],
   place_id |-> <<"p", "1">>]

ResCA ==
  [address_components |-> <<CityComponent, ZipComponent>>,
   formatted_address |-> <<"y", " ", "M", "5", "V">>,
   geometry |-> [lat |-> 1, lng |-> 2],
   place_id |-> <<"p", "2">>]

ResHouse ==
  [address_components |-> <<CityComponent>>,
   formatted_address |-> <<"1", "2", "3", "4", "5", " ", "z">>,
   geometry |-> [lat |-> 2, lng |-> 1],
   place_id |-> <<"p", "3">>]

ResUS2 ==
  [address_components |-> <<ZipComponent>>,
   formatted_address |-> <<"w", " ", "3", "2", "8", "0", "9">>,
   geometry |-> [lat |-> 2, lng |-> 2],
   place_id |-> <<"p", "4">>]

ResNoZip ==
  [address_components |-> <<>>,
   formatted_address |-> <<"v">>,
   geometry |-> [lat |-> 2, lng |-> 1],
   place_id |-> <<"p", "5">>]

GeoResults == {ResUS1, ResCA, ResHouse, ResUS2, ResNoZip}

\* What one gmaps.geocode call can answer: a raised exception, an empty
\* list, or a list whose first result is one of the places.
GeoAnswers ==
  {[kind |-> "exception"], [kind |-> "results", results |-> <<>>]}
    \cup {[kind |-> "results", results |-> <<res>>] : res \in GeoResults}

\* for component in address_components: 'postal_code' in types
HasZip(res) ==
  \E k \in DOMAIN res.address_components :
     "postal_code" \in res.address_components[k].types

DigitChar(n) ==
  CASE n = 0 -> "0" [] n = 1 -> "1" [] n = 2 -> "2" [] n = 3 -> "3"
    [] n = 4 -> "4" [] n = 5 -> "5" [] n = 6 -> "6" [] n = 7 -> "7"
    [] n = 8 -> "8" [] n = 9 -> "9"

\* latlng_str = f"{loc['lat']},{loc['lng']}"
LatLngStr(loc) == <<DigitChar(loc.lat), ",", DigitChar(loc.lng)>>

\* A row of table direcciones_v3 (direccion is the primary key).
Row(key, res) ==
  [direccion |-> key,
   latlng |-> LatLngStr(res.geometry),
   place_id |-> res.place_id,
   formatted_address |-> res.formatted_address]

\* SELECT ... WHERE direccion=?
SelectRows(c, key) == {row \in c : row.direccion = key}

\* INSERT OR REPLACE INTO direcciones_v3 VALUES (?, ?, ?, ?)
InsertOrReplace(c, row) ==
  {old \in c : old.direccion # row.direccion} \cup {row}

\* The cache branch, lines 115-123.
Cached(row) ==
  IF ~HasFiveDigitWord(row.formatted_address)
    THEN NoneTriple
    ELSE <<row.latlng, row.formatted_address, row.place_id>>

\* obtener_datos_geo(direccion) on cache c, when the backend (if it is
\* asked) gives `answer`: the returned triple, the cache afterwards and
\* the number of backend calls made.
obtener_datos_geo(direccion, c, has_gmaps, answer) ==
  LET direccion_clean == Normalize(direccion)
      res_db == SelectRows(c, direccion_clean)
      miss(ret, c2, n) == [ret |-> ret, cache |-> c2, queried |-> n]
  IN  IF direccion = None THEN miss(NoneTriple, c, 0)
      ELSE IF res_db # {} THEN miss(Cached(CHOOSE row \in res_db : TRUE), c, 0)
      ELSE IF ~has_gmaps THEN miss(NoneTriple, c, 0)
      ELSE IF answer.kind = "exception" THEN miss(NoneTriple, c, 1)
      ELSE IF Len(answer.results) > 0
        THEN LET res == answer.results[1]
             IN  IF ~HasZip(res) THEN miss(NoneTriple, c, 1)
                 ELSE LET row == Row(direccion_clean, res)
                      IN  miss(<<row.latlng, row.formatted_address, row.place_id>>,
                               InsertOrReplace(c, row), 1)
      ELSE miss(NoneTriple, c, 1)

\* ------------------------------------------------------------------------
\* The cache and a sequence of obtener_datos_geo calls
\* ------------------------------------------------------------------------
VARIABLES
  cache,         \* the rows of table direcciones_v3
  gmaps,         \* the googlemaps client was created (line 72)
  hist           \* the obtener_datos_geo calls made so far, in order

gvars == <<cache, gmaps, hist>>

\* Address texts of the requests: two spellings of one address, a second
\* address, the depot's address, a blank text and the absent address.
AddrA == <<"a">>
AddrA2 == <<" ", "A", " ">>
AddrB == <<"b">>
AddrD == <<"d">>
AddrBlank == <<" ">>

AddrPool == {AddrA, AddrA2, AddrB, AddrD, AddrBlank, None}

\* Rows a database file written before this version of the program can
\* hold: the file outlives the process (CREATE TABLE IF NOT EXISTS, line
\* 84) and lines 116-121 expect stored rows without a zip code.
OlderRows ==
  {Row(Normalize(AddrA), ResHouse), Row(Normalize(AddrB), ResNoZip)}

CacheInit == cache \in SUBSET OlderRows

GeoInit ==
  /\ CacheInit
  /\ gmaps \in BOOLEAN
  /\ hist = <<>>

\* One call obtener_datos_geo(direccion).
GeoCall ==
  /\ Len(hist) < MaxCalls
  /\ \E direccion \in AddrPool, answer \in GeoAnswers :
        LET o == obtener_datos_geo(direccion, cache, gmaps, answer)
        IN  /\ cache' = o.cache
            /\ hist' = Append(hist, [direccion |-> direccion, ret |-> o.ret,
                                     queried |-> o.queried])
  /\ UNCHANGED gmaps

\* ------------------------------------------------------------------------
\* parse_latlng and simple_kmeans_plus: the partitioner
\* ------------------------------------------------------------------------
DigitVal(ch) ==
  CASE ch = "0" -> 0 [] ch = "1" -> 1 [] ch = "2" -> 2 [] ch = "3" -> 3
    [] ch = "4" -> 4 [] ch = "5" -> 5 [] ch = "6" -> 6 [] ch = "7" -> 7
    [] ch = "8" -> 8 [] ch = "9" -> 9

\* parse_latlng: the two numbers around the comma, (0.0, 0.0) when the text
\* is empty or does not parse.  Coordinates of the model have one digit.
parse_latlng(latlng_str) ==
  IF /\ Len(latlng_str) = 3
     /\ latlng_str[1] \in Digits /\ latlng_str[2] = "," /\ latlng_str[3] \in Digits
    THEN <<DigitVal(latlng_str[1]), DigitVal(latlng_str[3])>>
    ELSE <<0, 0>>

\* A centroid is the pair (lat_n / den, lng_n / den), kept as exact
\* fractions: the averages of line 230-231 share the denominator
\* len(cluster).
CentroidOf(coords) == [lat_n |-> coords[1], lng_n |-> coords[2], den |-> 1]

\* (plat - clat)**2 + (plng - clng)**2 as the fraction num / den
DistSq(coords, c) ==
  [num |-> (coords[1] * c.den - c.lat_n) * (coords[1] * c.den - c.lat_n)
             + (coords[2] * c.den - c.lng_n) * (coords[2] * c.den - c.lng_n),
   den |-> c.den * c.den]

FracLess(x, y) == x.num * y.den < y.num * x.den

FracAdd(x, y) == [num |-> x.num * y.den + y.num * x.den, den |-> x.den * y.den]

\* min(... for c in centroids) > 0, i.e. the point is on no centroid
OffCentroids(coords, centroids) ==
  \A q \in DOMAIN centroids : DistSq(coords, centroids[q]).num > 0

\* Lines 183-205: the centroid lists the k-means++ initialisation can
\* produce.  The first is random.choice; each further one is the point at
\* which the running sum of the distances reaches r = random.uniform(0,
\* total): a point off every centroid, or (r = 0) the first point.  When
\* every point sits on a centroid the total is 0, `remaining` is empty and
\* the loop breaks.
RECURSIVE KppMore(_, _, _)
KppMore(points, centroids, rounds) ==
  IF rounds = 0 THEN {centroids}
  ELSE IF \A q \in DOMAIN points : ~OffCentroids(points[q].coords, centroids)
    THEN {centroids}
  ELSE UNION {KppMore(points, Append(centroids, CentroidOf(points[q].coords)), rounds - 1) :
                q \in {1} \cup {q2 \in DOMAIN points : OffCentroids(points[q2].coords, centroids)}}

KppInit(points, k) ==
  UNION {KppMore(points, <<CentroidOf(points[q].coords)>>, k - 1) : q \in DOMAIN points}

\* Lines 213-219: the index of the first nearest centroid (d < min_dist).
BestIdx(coords, centroids) ==
  CHOOSE q \in DOMAIN centroids :
     /\ \A o \in DOMAIN centroids :
           ~FracLess(DistSq(coords, centroids[o]), DistSq(coords, centroids[q]))
     /\ \A o \in 1..(q - 1) :
           FracLess(DistSq(coords, centroids[q]), DistSq(coords, centroids[o]))

\* Lines 210-220: every point appended to the cluster of its best index.
AssignAll(points, centroids) ==
  [q \in DOMAIN centroids |->
     SelectSeq(points, LAMBDA pt : BestIdx(pt.coords, centroids) = q)]

RECURSIVE SumLat(_)
SumLat(cluster) ==
  IF cluster = <<>> THEN 0 ELSE Head(cluster).coords[1] + SumLat(Tail(cluster))

RECURSIVE SumLng(_)
SumLng(cluster) ==
  IF cluster = <<>> THEN 0 ELSE Head(cluster).coords[2] + SumLng(Tail(cluster))

\* Lines 224-232: an empty cluster keeps its centroid, another moves to the
\* mean of its points.
NewCentroid(cluster, old) ==
  IF cluster = <<>> THEN old
  ELSE [lat_n |-> SumLat(cluster), lng_n |-> SumLng(cluster), den |-> Len(cluster)]

\* Line 233: (avg_lat - c[0])**2 + (avg_lng - c[1])**2 as a fraction
Moved(new, old) ==
  [num |-> (new.lat_n * old.den - old.lat_n * new.den) * (new.lat_n * old.den - old.lat_n * new.den)
             + (new.lng_n * old.den - old.lng_n * new.den) * (new.lng_n * old.den - old.lng_n * new.den),
   den |-> new.den * old.den * new.den * old.den]

RECURSIVE DiffSum(_, _, _)
DiffSum(clusters, centroids, q) ==
  IF q > Len(centroids) THEN [num |-> 0, den |-> 1]
  ELSE IF clusters[q] = <<>> THEN DiffSum(clusters, centroids, q + 1)
  ELSE FracAdd(Moved(NewCentroid(clusters[q], centroids[q]), centroids[q]),
               DiffSum(clusters, centroids, q + 1))

MAX_ITER == 100
EPSILON_INV == 1000000

\* Lines 209-236: the assign / recompute loop; diff < 1e-6 ends it.
RECURSIVE Iterate(_, _, _)
Iterate(points, centroids, iter) ==
  LET clusters == AssignAll(points, centroids)
      diff == DiffSum(clusters, centroids, 1)
      new_centroids == [q \in DOMAIN centroids |-> NewCentroid(clusters[q], centroids[q])]
  IN  IF diff.num * EPSILON_INV < diff.den \/ iter + 1 >= MAX_ITER
        THEN clusters
        ELSE Iterate(points, new_centroids, iter + 1)

\* simple_kmeans_plus(points, k): the cluster lists it can return.
simple_kmeans_plus(points, k) ==
  IF points = <<>> THEN {<<>>}
  ELSE IF k <= 0 THEN {<<points>>}
  ELSE {Iterate(points, centroids, 0) :
          centroids \in KppInit(points, Min(k, Len(points)))}

\* ------------------------------------------------------------------------
\* The routing engine behind resolver_vrp and resolver_tsp_parcial
\* ------------------------------------------------------------------------
MAX_ROUTE_SEC == 86400

\* Every order of the elements of a set.
RECURSIVE Perms(_)
Perms(S) ==
  IF S = {} THEN {<<>>}
  ELSE UNION {{<<x>> \o rest : rest \in Perms(S \ {x})} : x \in S}

\* time_cb of resolver_vrp: the matrix cell plus the dwell time when the
\* destination is not the depot.
TimeCb(time_matrix, dwell_min, fn, tn) ==
  time_matrix[fn][tn] + (IF tn # 0 THEN dwell_min * 60 ELSE 0)

\* Cumulated 'Time' of the route depot -> order -> depot.
RECURSIVE RouteTime(_, _, _, _)
RouteTime(time_matrix, dwell_min, from, order) ==
  IF order = <<>> THEN TimeCb(time_matrix, dwell_min, from, 0)
  ELSE TimeCb(time_matrix, dwell_min, from, Head(order))
         + RouteTime(time_matrix, dwell_min, Head(order), Tail(order))

\* routing.SolveWithParameters of resolver_vrp with one vehicle: a route
\* through every node whose cumulated time keeps within the dimension's
\* capacity of 86400, any such route (the search is a heuristic); no
\* solution when there is none.
VrpSolutions(time_matrix, dwell_min) ==
  {order \in Perms(DOMAIN time_matrix \ {0}) :
     RouteTime(time_matrix, dwell_min, 0, order) <= MAX_ROUTE_SEC}

\* routing.SolveWithParameters of resolver_tsp_parcial: no dimension is
\* added, every order of the nodes is a solution.
TspSolutions(time_matrix) == Perms(DOMAIN time_matrix \ {0})

\* ------------------------------------------------------------------------
\* Requests, responses and the state of the request being served
\* ------------------------------------------------------------------------
VARIABLES
  req,           \* the request being served
  pc,            \* position of the handler serving it
  response,      \* the response, once there is one
  cmd,           \* locals of the running crear_modelo_datos call
  model,         \* the value crear_modelo_datos returned
  mv,            \* locals of optimizar's multi-vehicle branch
  rc,            \* locals of recalcular_ruta_internal
  seen           \* what has happened while serving the request

rvars == <<req, pc, response, cmd, model, mv, rc, seen>>

\* ALMACEN_COORD = "28.450324,-81.405368"; the model writes it "0,0".
ALMACEN_COORD == <<"0", ",", "0">>

\* A stop object of a request: its name identifies it; direccion stands
\* for it.get('direccion') or it.get('address').
Stop(nombre, kind) ==
  [nombre |-> nombre, direccion |-> kind.direccion, latlng |-> kind.latlng,
   clean_address |-> kind.clean_address, place_id |-> kind.place_id, coord |-> None]

Plain(direccion) ==
  [direccion |-> direccion, latlng |-> None, clean_address |-> None, place_id |-> None]

\* A stop that carries pre-calculated data ('latlng' in it), here the data
\* of the place without postal code.
PreCalculated(direccion, res) ==
  [direccion |-> direccion, latlng |-> LatLngStr(res.geometry),
   clean_address |-> res.formatted_address, place_id |-> res.place_id]

StopKinds ==
  <<Plain(AddrA), Plain(AddrB), Plain(AddrA2), PreCalculated(AddrB, ResNoZip), Plain(None)>>

\* The stop lists of the requests: every length up to MaxStops, the kinds
\* drawn in rotation from an offset.
StopList(len, offset, stride) ==
  [k \in 1..len |-> Stop(k, StopKinds[((offset + k * stride) % Len(StopKinds)) + 1])]

StopLists ==
  {StopList(len, offset, stride) :
     len \in 0..MaxStops, offset \in 0..(Len(StopKinds) - 1), stride \in 1..2}

BasePool == {AddrD, None}
DwellPool == {6, 1440}

NoRequest == [endpoint |-> "none"]
NoResponse == [status |-> 0]
NoModel == [kind |-> "unset"]
NoCmd == [ret_to |-> "none"]
NoMv == [pending |-> {}]
NoRc == [k |-> 0]

SeenInit ==
  [n_matrix |-> 0,        \* obtener_matriz_dm_ai calls
   n_solves |-> 0,        \* SolveWithParameters calls
   depot_failed |-> FALSE,  \* a lookup of the depot address returned None
   depot_ok |-> FALSE,    \* a lookup of the depot address returned a coordinate
   geo_failed |-> {},     \* names of the stops whose lookup returned None
   geo_ok |-> {},         \* names of the stops whose lookup returned a coordinate
   no_solution |-> {},    \* vans whose SolveWithParameters found nothing
   van_error |-> {},      \* vans whose resolver_cluster_wrapper gave an error
   van_ok |-> {}]         \* vans whose resolver_cluster_wrapper gave a route

ReqInit ==
  /\ req = NoRequest /\ pc = "idle" /\ response = NoResponse
  /\ cmd = NoCmd /\ model = NoModel /\ mv = NoMv /\ rc = NoRc
  /\ seen = SeenInit

\* jsonify({"error": ...}), status
ErrorResponse(status, error, invalidas) ==
  [status |-> status, kind |-> "error", error |-> error, invalidas |-> invalidas]

\* jsonify(final_routes)
RoutesResponse(final_routes) ==
  [status |-> 200, kind |-> "routes", routes |-> final_routes]

\* ------------------------------------------------------------------------
\* crear_modelo_datos(items, n_vans, base_addr)
\* ------------------------------------------------------------------------
\* The call: the locals of lines 319-332.
CallCmd(items, base_addr, ret_to) ==
  [items |-> items, base_addr |-> base_addr, ret_to |-> ret_to, k |-> 1,
   base_coord |-> ALMACEN_COORD, base_fmt |-> base_addr,
   puntos_coords |-> <<>>, paradas_validas |-> <<>>, paradas_malas |-> <<>>]

\* Whether the base of this crear_modelo_datos call is the request's depot
\* (resolver_tsp_parcial passes the fixed stop's address instead).
BaseIsDepot == cmd.ret_to # "tsp"

\* Lines 323-330: the base address.
CmdBase ==
  /\ pc = "cmd_base"
  /\ IF cmd.base_addr # None
       THEN \E answer \in GeoAnswers :
              LET o == obtener_datos_geo(cmd.base_addr, cache, gmaps, answer)
              IN  /\ cache' = o.cache
                  /\ IF o.ret[1] # None
                       THEN /\ cmd' = [cmd EXCEPT !.base_coord = o.ret[1],
                                                  !.base_fmt = o.ret[2],
                                                  !.puntos_coords = <<o.ret[1]>>]
                            /\ pc' = "cmd_items"
                            /\ seen' = [seen EXCEPT !.depot_ok = @ \/ BaseIsDepot]
                            /\ UNCHANGED model
                       ELSE /\ model' = [kind |-> "invalidas",
                                         invalidas |-> <<[base |-> TRUE, addr |-> cmd.base_addr]>>]
                            /\ pc' = cmd.ret_to
                            /\ seen' = [seen EXCEPT !.depot_failed = @ \/ BaseIsDepot]
                            /\ UNCHANGED cmd
       ELSE /\ cmd' = [cmd EXCEPT !.puntos_coords = <<ALMACEN_COORD>>]
            /\ pc' = "cmd_items"
            /\ UNCHANGED <<cache, model, seen>>
  /\ UNCHANGED <<gmaps, hist, req, response, mv, rc, mvars>>

\* The dict appended to paradas_validas, lines 348-355.
ParadaValida(it, addr, f, i) ==
  [nombre |-> it.nombre, direccion |-> addr, latlng |-> None,
   clean_address |-> f, place_id |-> i, coord |-> None]

\* Lines 334-357: one round of the loop over the items.
CmdItem ==
  /\ pc = "cmd_items"
  /\ cmd.k <= Len(cmd.items)
  /\ LET it == cmd.items[cmd.k]
         addr == it.direccion
         take(c, f, i, looked_up) ==
           IF c # None
             THEN /\ cmd' = [cmd EXCEPT !.k = @ + 1,
                                        !.puntos_coords = Append(@, c),
                                        !.paradas_validas = Append(@, ParadaValida(it, addr, f, i))]
                  /\ seen' = [seen EXCEPT !.geo_ok = IF looked_up THEN @ \cup {it.nombre} ELSE @]
             ELSE /\ cmd' = [cmd EXCEPT !.k = @ + 1,
                                        !.paradas_malas = Append(@, addr)]
                  /\ seen' = [seen EXCEPT !.geo_failed = @ \cup {it.nombre}]
     IN  IF it.latlng # None
           THEN take(it.latlng, it.clean_address, it.place_id, FALSE) /\ UNCHANGED cache
         ELSE IF addr = None
           THEN cmd' = [cmd EXCEPT !.k = @ + 1] /\ UNCHANGED <<cache, seen>>
         ELSE \E answer \in GeoAnswers :
                LET o == obtener_datos_geo(addr, cache, gmaps, answer)
                IN  cache' = o.cache /\ take(o.ret[1], o.ret[2], o.ret[3], TRUE)
  /\ UNCHANGED <<gmaps, hist, req, pc, response, model, mv, rc, mvars>>

\* The check of line 359 left out: invalid stops are passed over.
AnyInvalidIgnored(paradas_malas) == FALSE
\* if paradas_malas: (line 359)
AnyInvalid(paradas_malas) == paradas_malas # <<>>

\* Lines 359-365: after the loop, up to the call of obtener_matriz_dm_ai.
CmdEndLoop ==
  /\ pc = "cmd_items"
  /\ cmd.k > Len(cmd.items)
  /\ IF AnyInvalid(cmd.paradas_malas)
       THEN /\ model' = [kind |-> "invalidas",
                         invalidas |-> [q \in DOMAIN cmd.paradas_malas |->
                                          [base |-> FALSE, addr |-> cmd.paradas_malas[q]]]]
            /\ pc' = cmd.ret_to
            /\ UNCHANGED <<mvars, seen>>
     ELSE IF Len(cmd.puntos_coords) < 2
       THEN /\ model' = [kind |-> "none"]
            /\ pc' = cmd.ret_to
            /\ UNCHANGED <<mvars, seen>>
     ELSE /\ puntos' = cmd.puntos_coords
          /\ mpc' = "call"
          /\ bi' = 0 /\ bj' = 0 /\ full_matrix' = <<>> /\ writes' = <<>> /\ failed' = {}
          /\ pc' = "cmd_matrix"
          /\ seen' = [seen EXCEPT !.n_matrix = @ + 1]
          /\ UNCHANGED <<model, has_key, backend>>
  /\ UNCHANGED <<gvars, req, response, cmd, mv, rc>>

\* Lines 364-375: the matrix call has returned or raised.
CmdMatrixDone ==
  /\ pc = "cmd_matrix"
  /\ mpc \in {"returned", "raised"}
  /\ model' = IF mpc = "raised"
                THEN [kind |-> "error_critico"]
                ELSE [kind |-> "model",
                      time_matrix |-> full_matrix,
                      coords |-> cmd.puntos_coords,
                      paradas_info |->
                        <<[nombre |-> 0, direccion |-> cmd.base_addr, latlng |-> None,
                           clean_address |-> cmd.base_fmt, place_id |-> None, coord |-> None]>>
                          \o cmd.paradas_validas]
  /\ pc' = cmd.ret_to
  /\ mpc' = "idle"
  /\ UNCHANGED <<puntos, has_key, backend, bi, bj, full_matrix, writes, failed>>
  /\ UNCHANGED <<gvars, req, response, cmd, mv, rc, seen>>

\* ------------------------------------------------------------------------
\* resolver_vrp(data_model, dwell_min)
\* ------------------------------------------------------------------------
EmptyDict == <<>>

\* Lines 406-415: the stops of the route, each with its coordinate.
RutaOf(data_model, order) ==
  [q \in DOMAIN order |->
     [data_model.paradas_info[order[q] + 1] EXCEPT !.coord = data_model.coords[order[q] + 1]]]

\* Lines 432-436; duracion_estimada is kept in seconds (the code divides
\* by 60) and the link is left out.
VanResult(data_model, dwell_min, order) ==
  [paradas |-> RutaOf(data_model, order),
   duracion_sec |-> RouteTime(data_model.time_matrix, dwell_min, 0, order)]

\* The dicts resolver_vrp can return: {} when no solution is found (line
\* 401, 403), else {"Van 1": ...} (num_vehicles is 1 at every call site).
resolver_vrp(data_model, dwell_min) ==
  LET sols == VrpSolutions(data_model.time_matrix, dwell_min)
  IN  IF sols = {} THEN {EmptyDict}
      ELSE {[v \in {1} |-> VanResult(data_model, dwell_min, order)] : order \in sols}

\* ------------------------------------------------------------------------
\* /optimizar
\* ------------------------------------------------------------------------
\* Lines 497-513, 547: the request is read; without stops it is refused,
\* else the branch for its num_vans starts.
Optimizar ==
  /\ pc = "idle"
  /\ \E stops \in StopLists, base \in BasePool, dwell \in DwellPool, n_vans \in 1..MaxVans :
        /\ req' = [endpoint |-> "optimizar", paradas |-> stops, base_address |-> base,
                   dwell_time |-> dwell, num_vans |-> n_vans]
        /\ IF stops = <<>>
             THEN /\ response' = ErrorResponse(400, "Sin paradas", <<>>)
                  /\ pc' = "done"
                  /\ UNCHANGED <<cmd, mv>>
           ELSE IF n_vans > 1
             THEN /\ mv' = [pending |-> DOMAIN stops, points_cluster |-> <<>>, malas |-> <<>>,
                            clusters |-> <<>>, ci |-> 0, results |-> <<>>]
                  /\ pc' = "geo_pool"
                  /\ UNCHANGED <<cmd, response>>
           ELSE /\ cmd' = CallCmd(stops, base, "single")
                /\ pc' = "cmd_base"
                /\ UNCHANGED <<mv, response>>
  /\ UNCHANGED <<gvars, mvars, model, rc, seen>>

\* Lines 548-557: the single-vehicle branch after crear_modelo_datos.
OptimizarSingleFinish ==
  /\ pc = "single"
  /\ pc' = "done"
  /\ IF model.kind = "invalidas"
       THEN response' = ErrorResponse(400, "Direcciones no validas", model.invalidas)
            /\ UNCHANGED seen
     ELSE IF model.kind = "error_critico"
       THEN response' = ErrorResponse(400, "error_critico", <<>>) /\ UNCHANGED seen
     ELSE IF model.kind = "none"
       THEN response' = ErrorResponse(400, "Error creando modelo", <<>>) /\ UNCHANGED seen
     ELSE \E final_routes \in resolver_vrp(model, req.dwell_time) :
            /\ response' = RoutesResponse(final_routes)
            /\ seen' = [seen EXCEPT !.n_solves = @ + 1,
                                    !.no_solution = IF final_routes = EmptyDict THEN {1} ELSE {}]
  /\ UNCHANGED <<gvars, mvars, req, cmd, model, mv, rc>>

\* procesar_geocoding(s), lines 457-470, for one stop of the pool; the
\* futures complete in any order.
ProcesarGeocoding ==
  /\ pc = "geo_pool"
  /\ \E k \in mv.pending :
        LET s_ == req.paradas[k]
            addr == s_.direccion
        IN  IF addr = None
              THEN /\ mv' = [mv EXCEPT !.pending = @ \ {k}]
                   /\ UNCHANGED <<cache, seen>>
            ELSE \E answer \in GeoAnswers :
                   LET o == obtener_datos_geo(addr, cache, gmaps, answer)
                   IN  /\ cache' = o.cache
                       /\ IF o.ret[1] # None
                            THEN /\ mv' = [mv EXCEPT
                                      !.pending = @ \ {k},
                                      !.points_cluster = Append(@,
                                         [coords |-> parse_latlng(o.ret[1]),
                                          data |-> [s_ EXCEPT !.latlng = o.ret[1],
                                                              !.clean_address = o.ret[2],
                                                              !.place_id = o.ret[3]]])]
                                 /\ seen' = [seen EXCEPT !.geo_ok = @ \cup {s_.nombre}]
                            ELSE /\ mv' = [mv EXCEPT !.pending = @ \ {k},
                                                     !.malas = Append(@, addr)]
                                 /\ seen' = [seen EXCEPT !.geo_failed = @ \cup {s_.nombre}]
  /\ UNCHANGED <<gmaps, hist, mvars, req, pc, response, cmd, model, rc>>

\* Lines 527-535: the strict check, then the clusters.
OptimizarPartition ==
  /\ pc = "geo_pool"
  /\ mv.pending = {}
  /\ IF AnyInvalid(mv.malas)
       THEN /\ response' = ErrorResponse(400, "Direcciones no validas",
                              [q \in DOMAIN mv.malas |-> [base |-> FALSE, addr |-> mv.malas[q]]])
            /\ pc' = "done"
            /\ UNCHANGED mv
     ELSE IF mv.points_cluster = <<>>
       THEN /\ response' = ErrorResponse(400, "No hay direcciones validas", <<>>)
            /\ pc' = "done"
            /\ UNCHANGED mv
     ELSE \E clusters \in simple_kmeans_plus(mv.points_cluster, req.num_vans) :
            /\ mv' = [mv EXCEPT !.clusters = clusters, !.ci = 1]
            /\ pc' = "clusters"
            /\ UNCHANGED response
  /\ UNCHANGED <<gvars, mvars, req, cmd, model, rc, seen>>

\* The result of line 475 turned into an error result.
EmptyVanResultAsError == [error |-> "vacio"]

\* {"paradas":[], "duracion_estimada":0, "link":""}
EmptyVanResult == [paradas |-> <<>>, duracion_sec |-> 0]

\* resolver_cluster_wrapper(i, clust, base, dwell), lines 473-478.  The
\* wrappers of a request are taken one after the other, in the order of
\* the clusters.
ClusterWrapperStart ==
  /\ pc = "clusters"
  /\ mv.ci <= Len(mv.clusters)
  /\ LET clust == mv.clusters[mv.ci]
     IN  IF clust = <<>>
           THEN /\ mv' = [mv EXCEPT !.results = Append(@, EmptyVanResult), !.ci = @ + 1]
                /\ seen' = [seen EXCEPT !.van_ok = @ \cup {mv.ci}]
                /\ UNCHANGED <<pc, cmd>>
           ELSE /\ cmd' = CallCmd([q \in DOMAIN clust |-> clust[q].data], req.base_address, "cluster")
                /\ pc' = "cmd_base"
                /\ UNCHANGED <<mv, seen>>
  /\ UNCHANGED <<gvars, mvars, req, response, model, rc>>

\* resolver_cluster_wrapper, lines 480-493.
ClusterWrapperFinish ==
  /\ pc = "cluster"
  /\ pc' = "clusters"
  /\ IF model.kind \in {"none", "error_critico", "invalidas"}
       THEN /\ mv' = [mv EXCEPT !.results = Append(@, [error |-> model.kind]), !.ci = @ + 1]
            /\ seen' = [seen EXCEPT !.van_error = @ \cup {mv.ci}]
     ELSE \E res \in resolver_vrp(model, req.dwell_time) :
            /\ mv' = [mv EXCEPT
                        !.results = Append(@, IF res # EmptyDict THEN res[1] ELSE EmptyVanResult),
                        !.ci = @ + 1]
            /\ seen' = [seen EXCEPT !.n_solves = @ + 1,
                                    !.van_ok = @ \cup {mv.ci},
                                    !.no_solution = IF res = EmptyDict THEN @ \cup {mv.ci} ELSE @]
  /\ UNCHANGED <<gvars, mvars, req, response, cmd, model, rc>>

\* Lines 540-544, 557: the results are collected; an error result ends the
\* request.
OptimizarMultiRespond ==
  /\ pc = "clusters"
  /\ mv.ci > Len(mv.clusters)
  /\ pc' = "done"
  /\ response' =
       IF \E v \in DOMAIN mv.results : "error" \in DOMAIN mv.results[v]
         THEN ErrorResponse(500, "Error calculando", <<>>)
         ELSE RoutesResponse(mv.results)
  /\ UNCHANGED <<gvars, mvars, req, cmd, model, mv, rc, seen>>

\* ------------------------------------------------------------------------
\* /recalcular, /optimizar_restantes, recalcular_ruta_internal,
\* resolver_tsp_parcial
\* ------------------------------------------------------------------------
\* The call recalcular_ruta_internal(paradas_objs, base, dwell_time).
CallRc(paradas_objs, base) ==
  [paradas_objs |-> paradas_objs, base |-> base, k |-> 1,
   c_base |-> None, fmt_base |-> None, coords |-> <<>>, clean_stops |-> <<>>]

\* Lines 563-566.
Recalcular ==
  /\ pc = "idle"
  /\ \E stops \in StopLists, base \in BasePool, dwell \in DwellPool :
        /\ req' = [endpoint |-> "recalcular", paradas |-> stops, base_address |-> base,
                   dwell_time |-> dwell, num_vans |-> 1]
        /\ rc' = CallRc(stops, base)
  /\ pc' = "rc_base"
  /\ UNCHANGED <<gvars, mvars, response, cmd, model, mv, seen>>

\* Lines 568-580: fewer than 3 stops are recalculated as they are; else
\* resolver_tsp_parcial starts with crear_modelo_datos(loose, 1,
\* fixed.get('direccion')).
OptimizarRestantes ==
  /\ pc = "idle"
  /\ \E stops \in StopLists, base \in BasePool, dwell \in DwellPool :
        /\ req' = [endpoint |-> "optimizar_restantes", paradas |-> stops,
                   base_address |-> base, dwell_time |-> dwell, num_vans |-> 1]
        /\ IF Len(stops) < 3
             THEN /\ rc' = CallRc(stops, base)
                  /\ pc' = "rc_base"
                  /\ UNCHANGED cmd
             ELSE /\ cmd' = CallCmd(Tail(stops), Head(stops).direccion, "tsp")
                  /\ pc' = "cmd_base"
                  /\ UNCHANGED rc
  /\ UNCHANGED <<gvars, mvars, response, model, mv, seen>>

\* resolver_tsp_parcial after crear_modelo_datos, lines 630-659, then
\* lines 581-583.  A model that holds "error_critico" passes line 630 (it
\* has no key "error") and line 632 raises KeyError, which the handler of
\* line 40 turns into a 500.
TspFinish ==
  /\ pc = "tsp"
  /\ IF model.kind \in {"none", "invalidas"}
       THEN /\ response' = ErrorResponse(500, "Fallo re-optimizando", <<>>)
            /\ pc' = "done"
            /\ UNCHANGED <<rc, seen>>
     ELSE IF model.kind = "error_critico"
       THEN /\ response' = ErrorResponse(500, "Error del Sistema", <<>>)
            /\ pc' = "done"
            /\ UNCHANGED <<rc, seen>>
     ELSE \E order \in TspSolutions(model.time_matrix) :
            /\ rc' = CallRc(<<Head(req.paradas)>>
                              \o [q \in DOMAIN order |-> model.paradas_info[order[q] + 1]],
                            req.base_address)
            /\ pc' = "rc_base"
            /\ seen' = [seen EXCEPT !.n_solves = @ + 1]
            /\ UNCHANGED response
  /\ UNCHANGED <<gvars, mvars, req, cmd, model, mv>>

\* Lines 586-589: the base of recalcular_ruta_internal.
RcBase ==
  /\ pc = "rc_base"
  /\ \E answer \in GeoAnswers :
        LET o == obtener_datos_geo(rc.base, cache, gmaps, answer)
        IN  /\ cache' = o.cache
            /\ IF o.ret[1] = None
                 THEN /\ response' = ErrorResponse(400, "Base invalida", <<>>)
                      /\ pc' = "done"
                      /\ seen' = [seen EXCEPT !.depot_failed = TRUE]
                      /\ UNCHANGED rc
                 ELSE /\ rc' = [rc EXCEPT !.c_base = o.ret[1], !.fmt_base = o.ret[2],
                                          !.coords = <<o.ret[1]>>]
                      /\ pc' = "rc_stops"
                      /\ seen' = [seen EXCEPT !.depot_ok = TRUE]
                      /\ UNCHANGED response
  /\ UNCHANGED <<gmaps, hist, mvars, req, cmd, model, mv>>

\* Lines 592-599: one round of the loop; a stop without coordinate is left
\* out.
RcStop ==
  /\ pc = "rc_stops"
  /\ rc.k <= Len(rc.paradas_objs)
  /\ LET s_ == rc.paradas_objs[rc.k]
     IN  \E answer \in GeoAnswers :
           LET o == obtener_datos_geo(s_.direccion, cache, gmaps, answer)
           IN  /\ cache' = o.cache
               /\ IF o.ret[1] # None
                    THEN /\ rc' = [rc EXCEPT
                                     !.k = @ + 1,
                                     !.coords = Append(@, o.ret[1]),
                                     !.clean_stops = Append(@,
                                        [s_ EXCEPT !.clean_address = o.ret[2],
                                                   !.place_id = o.ret[3],
                                                   !.coord = o.ret[1]])]
                         /\ seen' = [seen EXCEPT !.geo_ok = @ \cup {s_.nombre}]
                    ELSE /\ rc' = [rc EXCEPT !.k = @ + 1]
                         /\ seen' = [seen EXCEPT !.geo_failed = @ \cup {s_.nombre}]
  /\ UNCHANGED <<gmaps, hist, mvars, req, pc, response, cmd, model, mv>>

\* jsonify({"duracion_estimada", "link", "paradas"}); the duration is kept
\* in seconds and the link is left out.
RecalcResponse(total_sec, clean_stops) ==
  [status |-> 200, kind |-> "recalc", duracion_sec |-> total_sec, paradas |-> clean_stops]

\* Lines 601-607: the base closes the path; with more than one distinct
\* coordinate the matrix of list(set(coords)) is requested, in whatever
\* order the set iterates.
RcEndLoop ==
  /\ pc = "rc_stops"
  /\ rc.k > Len(rc.paradas_objs)
  /\ LET coords == Append(rc.coords, rc.c_base)
     IN  /\ rc' = [rc EXCEPT !.coords = coords]
         /\ IF Cardinality(Range(coords)) > 1
              THEN /\ \E uniques \in Perms(Range(coords)) : puntos' = uniques
                   /\ mpc' = "call"
                   /\ bi' = 0 /\ bj' = 0 /\ full_matrix' = <<>> /\ writes' = <<>> /\ failed' = {}
                   /\ pc' = "rc_matrix"
                   /\ seen' = [seen EXCEPT !.n_matrix = @ + 1]
                   /\ UNCHANGED <<response, has_key, backend>>
              ELSE /\ response' = RecalcResponse(Len(rc.clean_stops) * req.dwell_time * 60,
                                                 rc.clean_stops)
                   /\ pc' = "done"
                   /\ UNCHANGED <<mvars, seen>>
  /\ UNCHANGED <<gvars, req, cmd, model, mv>>

\* idx_map = {u: i for i, u in enumerate(uniques)}
IdxMap(uniques, u) == (CHOOSE q \in DOMAIN uniques : uniques[q] = u) - 1

\* Lines 610-614: the legs below 900000 seconds are added up.
RECURSIVE LegsSum(_, _, _, _)
LegsSum(matrix, uniques, coords, i) ==
  IF i >= Len(coords) THEN 0
  ELSE LET t_sec == matrix[IdxMap(uniques, coords[i])][IdxMap(uniques, coords[i + 1])]
       IN  (IF t_sec < 900000 THEN t_sec ELSE 0) + LegsSum(matrix, uniques, coords, i + 1)

\* Lines 608-626: the matrix call has returned or raised (except: pass).
RcFinish ==
  /\ pc = "rc_matrix"
  /\ mpc \in {"returned", "raised"}
  /\ response' =
       RecalcResponse((IF mpc = "returned" THEN LegsSum(full_matrix, puntos, rc.coords, 1) ELSE 0)
                        + Len(rc.clean_stops) * req.dwell_time * 60,
                      rc.clean_stops)
  /\ pc' = "done"
  /\ mpc' = "idle"
  /\ UNCHANGED <<puntos, has_key, backend, bi, bj, full_matrix, writes, failed>>
  /\ UNCHANGED <<gvars, req, cmd, model, mv, rc, seen>>

\* ------------------------------------------------------------------------
\* Claims about obtener_matriz_dm_ai (checked under SpecMatrix)
\* ------------------------------------------------------------------------
\* The cell a single call over the whole cleaned point list answers for
\* (r, c): the duration, or 999999 where the element status is not OK.
SingleCallCell(r, c) ==
  LET clean == CleanPoints(puntos)
      el == Element(backend, clean[r + 1], clean[c + 1])
  IN  IF el.status = "OK" THEN el.value ELSE 999999

\* C1: for a point list of 2 or more points, a call in which some batch
\* request failed (exception, timeout, non-200 status, non-OK body status)
\* does not return a matrix.
C1_NoPartialMatrix ==
  (mpc = "returned" /\ Len(puntos) >= 2) => failed = {}

\* C2: for a point list longer than the batch size whose batches were all
\* answered successfully, the returned matrix equals cell by cell the
\* matrix of a single unbounded call (sentinel 999999 where the element is
\* not OK), and every cell has been written exactly once.
C2_StitchedEqualsSingleCall ==
  (mpc = "returned" /\ Len(puntos) > BATCH_SIZE /\ failed = {}) =>
     \A r \in 0..(Len(puntos) - 1), c \in 0..(Len(puntos) - 1) :
        /\ full_matrix[r][c] = SingleCallCell(r, c)
        /\ writes[r][c] = 1

\* A returned matrix of three chunks per axis, all answered, holding a
\* sentinel cell and a duration in its last row x middle-column block.
C2_Witness ==
  /\ mpc = "returned"
  /\ Len(puntos) > 2 * BATCH_SIZE
  /\ failed = {}
  /\ \E r \in DOMAIN full_matrix, c \in DOMAIN full_matrix : full_matrix[r][c] = SENTINEL
  /\ full_matrix[2 * BATCH_SIZE][BATCH_SIZE + 1] \notin {0, SENTINEL}

\* ------------------------------------------------------------------------
\* Claims about obtener_datos_geo (checked under SpecGeo)
\* ------------------------------------------------------------------------
\* C3: once a call has returned a result, every later call with an address
\* text (a non-empty one) that normalizes to the same key returns the
\* identical triple and asks the geocoding backend zero times.
C3_GeocodeIdempotent ==
  \A k1 \in DOMAIN hist, k2 \in DOMAIN hist :
     (/\ k1 < k2
      /\ hist[k1].ret # NoneTriple
      /\ hist[k2].direccion # None
      /\ Normalize(hist[k1].direccion) = Normalize(hist[k2].direccion))
       => (hist[k2].ret = hist[k1].ret /\ hist[k2].queried = 0)

\* ------------------------------------------------------------------------
\* Specifications
\* ------------------------------------------------------------------------
vars == <<mvars, gvars, rvars>>

MatrixIdle ==
  /\ puntos = <<>> /\ has_key = TRUE /\ backend = 1 /\ mpc = "idle"
  /\ bi = 0 /\ bj = 0 /\ full_matrix = <<>> /\ writes = <<>> /\ failed = {}

GeoIdle == cache = {} /\ gmaps = TRUE /\ hist = <<>>

\* obtener_matriz_dm_ai alone, over point lists of every length.
MatrixAloneInit == MatrixInit /\ GeoIdle /\ ReqInit

SpecMatrix ==
  /\ MatrixAloneInit
  /\ [][MatrixNext /\ UNCHANGED <<gvars, rvars>>]_vars

\* A sequence of obtener_datos_geo calls over one cache.
GeoAloneInit == GeoInit /\ MatrixIdle /\ ReqInit

SpecGeo ==
  /\ GeoAloneInit
  /\ [][GeoCall /\ UNCHANGED <<mvars, rvars>>]_vars

\* The state a request finds: the cache file, the configured keys, the
\* matrix service.
ServerInit ==
  /\ CacheInit /\ gmaps = TRUE /\ hist = <<>>
  /\ puntos = <<>> /\ has_key \in BOOLEAN /\ backend = 1 /\ mpc = "idle"
  /\ bi = 0 /\ bj = 0 /\ full_matrix = <<>> /\ writes = <<>> /\ failed = {}
  /\ ReqInit

\* The matrix call inside a request.
MatrixStep == MatrixNext /\ UNCHANGED <<gvars, rvars>>

CmdNext == CmdBase \/ CmdItem \/ CmdEndLoop \/ CmdMatrixDone

OptimizarNext ==
  \/ Optimizar
  \/ OptimizarSingleFinish
  \/ ProcesarGeocoding
  \/ OptimizarPartition
  \/ ClusterWrapperStart
  \/ ClusterWrapperFinish
  \/ OptimizarMultiRespond

RestantesNext ==
  \/ Recalcular
  \/ OptimizarRestantes
  \/ TspFinish
  \/ RcBase
  \/ RcStop
  \/ RcEndLoop
  \/ RcFinish

\* One /recalcular or /optimizar_restantes request.
SpecRestantes ==
  /\ ServerInit
  /\ [][RestantesNext \/ CmdNext \/ MatrixStep]_vars

\* One /optimizar request.
SpecOptimizar ==
  /\ ServerInit
  /\ [][OptimizarNext \/ CmdNext \/ MatrixStep]_vars

\* ------------------------------------------------------------------------
\* Claims about the requests (checked under SpecOptimizar, SpecRestantes)
\* ------------------------------------------------------------------------
\* The (name, address) pairs of a stop list.
StopIds(stops) == {<<stops[q].nombre, stops[q].direccion>> : q \in DOMAIN stops}

\* C4: an /optimizar_restantes request with a non-empty stop list (every
\* stop with an address) that returns 'paradas' returns the input's first
\* stop first, followed by a permutation of the input's remaining stops.
C4_FixedStopPreserved ==
  (/\ pc = "done"
   /\ req.endpoint = "optimizar_restantes"
   /\ req.paradas # <<>>
   /\ \A k \in DOMAIN req.paradas : req.paradas[k].direccion # None
   /\ response.kind = "recalc")
    => /\ Len(response.paradas) = Len(req.paradas)
       /\ StopIds(<<Head(response.paradas)>>) = StopIds(<<Head(req.paradas)>>)
       /\ StopIds(Tail(response.paradas)) = StopIds(Tail(req.paradas))

\* The invalid addresses an error response names.
Reported(resp) == {resp.invalidas[q].addr : q \in DOMAIN resp.invalidas}

C6_NoSolutionIsFailure ==
  (pc = "done" /\ seen.no_solution # {}) => response.kind = "error"

\* How often the stop named k appears in the routes of a response.
Appearances(routes, k) ==
  Cardinality({vq \in UNION {{<<v, q>> : q \in DOMAIN routes[v].paradas} : v \in DOMAIN routes} :
                 routes[vq[1]].paradas[vq[2]].nombre = k})

\* Every stop of the request has an address and its lookups succeeded.
AllResolved ==
  /\ seen.geo_failed = {}
  /\ \A k \in DOMAIN req.paradas : req.paradas[k].direccion # None

\* C7: an /optimizar request that returns routes (at least one vehicle's),
\* all addresses resolved, has every input stop in exactly one vehicle's
\* 'paradas', exactly once.
C7_EachStopOnce ==
  (/\ pc = "done" /\ req.endpoint = "optimizar" /\ response.kind = "routes"
   /\ response.routes # EmptyDict /\ AllResolved)
    => \A k \in DOMAIN req.paradas : Appearances(response.routes, k) = 1

\* C7 apart from the vehicles without solution: holds.
C7_EachStopOnceWhenSolved ==
  (/\ pc = "done" /\ req.endpoint = "optimizar" /\ response.kind = "routes"
   /\ AllResolved /\ seen.no_solution = {})
    => \A k \in DOMAIN req.paradas : Appearances(response.routes, k) = 1

\* C8: in a multi-vehicle request in which one vehicle's wrapper gave an
\* error and another's a result, the response still carries the results of
\* the others.
C8_FailureIsolated ==
  (pc = "done" /\ req.endpoint = "optimizar" /\ seen.van_error # {} /\ seen.van_ok # {})
    => /\ "routes" \in DOMAIN response
       /\ \A v \in seen.van_ok : v \in DOMAIN response.routes

\* C9: a request whose depot address is given and whose lookup failed
\* ends in an error, without any matrix having been requested or any
\* route solved.
C9_DepotFatal ==
  (pc = "done" /\ req.base_address # None /\ seen.depot_failed)
    => /\ response.kind = "error"
       /\ seen.n_matrix = 0
       /\ seen.n_solves = 0

\* The geocode result a place id belongs to.
ResultOfPlace(place_id) == CHOOSE res \in GeoResults : res.place_id = place_id

\* C10: no stop that the server itself looked up (the request carried no
\* coordinate for it) and that appears in a vehicle's route of a response
\* belongs to a geocode result without postal code.
C10_NoZipNeverRouted ==
  (pc = "done" /\ response.kind = "routes")
    => \A v \in DOMAIN response.routes :
          \A q \in DOMAIN response.routes[v].paradas :
             LET stop == response.routes[v].paradas[q] IN
               req.paradas[stop.nombre].latlng = None
                 => HasZip(ResultOfPlace(stop.place_id))

\* ------------------------------------------------------------------------
\* The objective of resolver_tsp_parcial
\* ------------------------------------------------------------------------
\* Lines 632-638: RoutingIndexManager(n, 1, 0) starts and ends the one
\* vehicle at node 0, the fixed stop, and the arc cost is the matrix cell;
\* the cost of an order is that of the tour 0 -> order -> 0.
TspArcCost(time_matrix, order) == RouteTime(time_matrix, 0, 0, order)

\* The order resolver_tsp_parcial returned (line 659), as nodes of its
\* model, read back from the stops handed to recalcular_ruta_internal.
TspOrder ==
  [q \in 1..(Len(rc.paradas_objs) - 1) |->
     CHOOSE n \in DOMAIN model.time_matrix \ {0} :
       model.paradas_info[n + 1].nombre = rc.paradas_objs[q + 1].nombre]

\* The travel time the matrix service gives from one coordinate to another.
TravelTime(o, d) == ElementVal(Element(backend, CleanPoint(o), CleanPoint(d)))

\* The time of the path fixed stop -> order -> depot: every edge between
\* consecutive stops and the edge from the last stop to the depot.
RECURSIVE PathToDepot(_, _, _, _)
PathToDepot(coords, from, order, c_base) ==
  IF order = <<>> THEN TravelTime(coords[from + 1], c_base)
  ELSE TravelTime(coords[from + 1], coords[Head(order) + 1])
         + PathToDepot(coords, Head(order), Tail(order), c_base)

\* first_solution_strategy PATH_CHEAPEST_ARC (line 641): from the start
\* node on, the route is extended by the cheapest arc out of its last node;
\* 'order' is the route built so when each such arc is the only cheapest.
RECURSIVE IsCheapestArcPath(_, _, _)
IsCheapestArcPath(time_matrix, from, order) ==
  \/ order = <<>>
  \/ /\ \A q \in 2..Len(order) :
           time_matrix[from][Head(order)] < time_matrix[from][order[q]]
     /\ IsCheapestArcPath(time_matrix, Head(order), Tail(order))

\* resolver_tsp_parcial has returned an order for a fixed stop that has an
\* address, computed on a complete matrix in which every pair has a travel
\* time; the order is the first solution of the search and the only best
\* one for the solver's own arc cost, and the depot has resolved.
TspSolvedAtBest ==
  /\ req.endpoint = "optimizar_restantes"
  /\ pc = "rc_stops" /\ rc.k = 1
  /\ seen.n_solves = 1
  /\ model.kind = "model"
  /\ Head(req.paradas).direccion # None
  /\ failed = {}
  /\ \A r \in DOMAIN model.time_matrix : \A c \in DOMAIN model.time_matrix :
        model.time_matrix[r][c] < SENTINEL
  /\ \A n \in DOMAIN model.time_matrix : TravelTime(model.coords[n + 1], rc.c_base) < SENTINEL
  /\ IsCheapestArcPath(model.time_matrix, 0, TspOrder)
  /\ \A other \in TspSolutions(model.time_matrix) \ {TspOrder} :
        TspArcCost(model.time_matrix, TspOrder) < TspArcCost(model.time_matrix, other)

\* C11: the order resolver_tsp_parcial chose for the remaining stops has
\* the least total time among the paths that start at the fixed stop,
\* visit every remaining stop once and end at the depot.
C11_EndsAtDepot ==
  TspSolvedAtBest =>
    \A other \in TspSolutions(model.time_matrix) :
       PathToDepot(model.coords, 0, TspOrder, rc.c_base)
         <= PathToDepot(model.coords, 0, other, rc.c_base)

\* ------------------------------------------------------------------------
\* The multi-vehicle branch of /optimizar from line 527 on, over the
\* outcomes of the geocoding pool
\* ------------------------------------------------------------------------
\* A third place with postal code, in line with two of the others.
ResUS3 ==
  [address_components |-> <<ZipComponent>>,
   formatted_address |-> <<"u", " ", "3", "2", "8", "0", "3">>,
   geometry |-> [lat |-> 1, lng |-> 3],
   place_id |-> <<"p", "6">>]

AddrC == <<"c">>
AddrE == <<"e">>

\* The addresses of the stops, by position in the request, and the places
\* the lookups of lines 517-525 can have resolved them to.
PoolAddrs == <<AddrA, AddrB, AddrC, AddrE>>
PoolPlaces == {ResUS1, ResCA, ResUS2, ResUS3}

\* res of procesar_geocoding for stop k resolved to a place (lines 461-469).
PoolPoint(k, res) ==
  [coords |-> parse_latlng(LatLngStr(res.geometry)),
   data |-> [Stop(k, Plain(PoolAddrs[k])) EXCEPT
               !.latlng = LatLngStr(res.geometry),
               !.clean_address = res.formatted_address,
               !.place_id = res.place_id]]

\* The state at line 527 of a request with num_vans > 1 whose n stops all
\* resolved: points_cluster holds them (the places range over every
\* assignment, so every sequence of coordinates is there), the cache holds
\* their rows.
PartitionInit ==
  /\ \E n \in 1..Min(MaxStops, Len(PoolAddrs)), k \in 2..MaxVans, base \in BasePool :
       \E place \in [1..n -> PoolPlaces] :
          /\ req = [endpoint |-> "optimizar",
                    paradas |-> [q \in 1..n |-> Stop(q, Plain(PoolAddrs[q]))],
                    base_address |-> base, dwell_time |-> 6, num_vans |-> k]
          /\ mv = [pending |-> {},
                   points_cluster |-> [q \in 1..n |-> PoolPoint(q, place[q])],
                   malas |-> <<>>, clusters |-> <<>>, ci |-> 0, results |-> <<>>]
          /\ cache = {Row(Normalize(PoolAddrs[q]), place[q]) : q \in 1..n}
          /\ seen = [SeenInit EXCEPT !.geo_ok = 1..n]
  /\ gmaps = TRUE /\ hist = <<>>
  /\ MatrixIdle
  /\ pc = "geo_pool" /\ response = NoResponse
  /\ cmd = NoCmd /\ model = NoModel /\ rc = NoRc

PartitionNext ==
  \/ OptimizarPartition
  \/ ClusterWrapperStart
  \/ ClusterWrapperFinish
  \/ OptimizarMultiRespond

SpecPartition ==
  /\ PartitionInit
  /\ [][PartitionNext \/ CmdNext \/ MatrixStep]_vars

\* The different coordinates among the points handed to the partitioner.
DistinctCoords == {mv.points_cluster[q].coords : q \in DOMAIN mv.points_cluster}

\* A multi-vehicle /optimizar request, every address resolved, answered.
MultiAnswered ==
  /\ pc = "done" /\ req.endpoint = "optimizar" /\ req.num_vans > 1
  /\ AllResolved

POOL_WORKERS == 3

IdleWorker == [at |-> "idle"]

\* The stop lists of the pool: addresses "a", " A " (same key) and "b".
ThreadAddrs == <<AddrA, AddrA2, AddrB>>

ThreadStopLists ==
  UNION {{[q \in 1..n |-> Stop(q, Plain(ThreadAddrs[pick[q]]))] :
            pick \in [1..n -> DOMAIN ThreadAddrs]} : n \in 1..MaxStops}

\* Line 517-518 of a request with num_vans > 1: every stop submitted, the
\* table empty.
PoolInit ==
  /\ \E stops \in ThreadStopLists :
        /\ req = [endpoint |-> "optimizar", paradas |-> stops, base_address |-> None,
                  dwell_time |-> 6, num_vans |-> 2]
        /\ mv = [pending |-> [q \in DOMAIN stops |-> q],
                 workers |-> [w \in 1..POOL_WORKERS |-> IdleWorker],
                 points_cluster |-> <<>>, malas |-> <<>>]
  /\ cache = {} /\ gmaps = TRUE /\ hist = <<>>
  /\ MatrixIdle
  /\ pc = "geo_threads" /\ response = NoResponse
  /\ cmd = NoCmd /\ model = NoModel /\ rc = NoRc /\ seen = SeenInit

\* The threads are interchangeable: the first idle one takes the work.
FirstIdle(w) ==
  /\ mv.workers[w] = IdleWorker
  /\ \A o \in 1..(w - 1) : mv.workers[o] # IdleWorker

\* The call of worker w returns ret; lines 461-470 and 520-525 put the
\* result among the points or the address among the bad ones.
WorkerReturns(w, ret) ==
  LET k == mv.workers[w].k
      s_ == req.paradas[k]
  IN  /\ mv' = IF ret[1] # None
                 THEN [mv EXCEPT
                         !.workers[w] = IdleWorker,
                         !.points_cluster = Append(@,
                            [coords |-> parse_latlng(ret[1]),
                             data |-> [s_ EXCEPT !.latlng = ret[1],
                                                 !.clean_address = ret[2],
                                                 !.place_id = ret[3]]])]
                 ELSE [mv EXCEPT !.workers[w] = IdleWorker,
                                 !.malas = Append(@, s_.direccion)]
      /\ seen' = IF ret[1] # None
                   THEN [seen EXCEPT !.geo_ok = @ \cup {k}]
                   ELSE [seen EXCEPT !.geo_failed = @ \cup {k}]

\* A thread starts procesar_geocoding(s) for the next submitted stop
\* (lines 458-459: a stop without address gives None, which line 521 skips).
WorkerTake(w) ==
  /\ pc = "geo_threads"
  /\ FirstIdle(w)
  /\ mv.pending # <<>>
  /\ LET k == Head(mv.pending)
     IN  mv' = [mv EXCEPT
                  !.pending = Tail(@),
                  !.workers[w] = IF req.paradas[k].direccion = None
                                   THEN IdleWorker
                                   ELSE [at |-> "select", k |-> k]]
  /\ UNCHANGED <<gvars, mvars, req, pc, response, cmd, model, rc, seen>>

\* Lines 104-125: the SELECT; a row found ends the call (lines 115-123),
\* no row and no client too (line 125).
WorkerSelect(w) ==
  /\ pc = "geo_threads"
  /\ mv.workers[w].at = "select"
  /\ LET direccion == req.paradas[mv.workers[w].k].direccion
     IN  IF SelectRows(cache, Normalize(direccion)) # {} \/ ~gmaps
           THEN WorkerReturns(w, obtener_datos_geo(direccion, cache, FALSE,
                                                   [kind |-> "exception"]).ret)
           ELSE /\ mv' = [mv EXCEPT !.workers[w].at = "geocode"]
                /\ UNCHANGED seen
  /\ UNCHANGED <<gvars, mvars, req, pc, response, cmd, model, rc>>

\* Lines 127-152: gmaps.geocode and the check of its result; a result that
\* passes is held for the INSERT.
WorkerGeocode(w) ==
  /\ pc = "geo_threads"
  /\ mv.workers[w].at = "geocode"
  /\ \E answer \in GeoAnswers :
        LET direccion == req.paradas[mv.workers[w].k].direccion
            o == obtener_datos_geo(direccion, {}, TRUE, answer)
        IN  IF o.ret = NoneTriple
              THEN WorkerReturns(w, NoneTriple)
              ELSE /\ mv' = [mv EXCEPT
                               !.workers[w] = [at |-> "insert", k |-> mv.workers[w].k,
                                               row |-> CHOOSE row \in o.cache : TRUE]]
                   /\ UNCHANGED seen
  /\ UNCHANGED <<gvars, mvars, req, pc, response, cmd, model, rc>>

\* Lines 154-156: INSERT OR REPLACE, commit, return.
WorkerInsert(w) ==
  /\ pc = "geo_threads"
  /\ mv.workers[w].at = "insert"
  /\ LET row == mv.workers[w].row
     IN  /\ cache' = InsertOrReplace(cache, row)
         /\ WorkerReturns(w, <<row.latlng, row.formatted_address, row.place_id>>)
  /\ UNCHANGED <<gmaps, hist, mvars, req, pc, response, cmd, model, rc>>

\* The end of the with block of line 517: every future has completed.
PoolJoin ==
  /\ pc = "geo_threads"
  /\ mv.pending = <<>>
  /\ \A w \in 1..POOL_WORKERS : mv.workers[w] = IdleWorker
  /\ pc' = "pool_joined"
  /\ UNCHANGED <<gvars, mvars, req, response, cmd, model, mv, rc, seen>>

PoolTake == \E w \in 1..POOL_WORKERS : WorkerTake(w)
PoolSelect == \E w \in 1..POOL_WORKERS : WorkerSelect(w)
PoolGeocode == \E w \in 1..POOL_WORKERS : WorkerGeocode(w)
PoolInsert == \E w \in 1..POOL_WORKERS : WorkerInsert(w)

PoolNext == PoolTake \/ PoolSelect \/ PoolGeocode \/ PoolInsert \/ PoolJoin

SpecPool == PoolInit /\ [][PoolNext]_vars

\* C13: once the table holds an entry for a key, no step of any thread of
\* the pool replaces it with a different entry.
C13_CacheImmutable ==
  [][\A row \in cache : row \in cache']_vars

\* C13, the part on the store: at most one entry per key at every moment.
C13_OneEntryPerKey ==
  \A r1 \in cache, r2 \in cache : r1.direccion = r2.direccion => r1 = r2

====
